---- MODULE Spec2Model ----
(***************************************************************************)
(* A model of simple_gurobi.py: the four entry points solve_miqp,          *)
(* solve_qp, solve_lp and solve_milp, the dimension inference              *)
(* get_program_parameters, the model solve_miqp builds in the solver, and  *)
(* the SolverOutput record it extracts.                                    *)
(*                                                                         *)
(* Arrays are records: `some` tells None from an array, `rows`/`cols` are  *)
(* its shape, `at` its entries (0-indexed, as in the source).  Numbers     *)
(* that the source treats as floats (b, the primal vector, slacks) are     *)
(* integers counting units of 1e-7, so that a residual r squared is below  *)
(* 10 ** -12 exactly when r * r < 100.                                     *)
(*                                                                         *)
(* The solver (gurobipy) is outside the repository.  What it answers to    *)
(* optimize and to the attribute queries is a stub chosen when optimize    *)
(* is first invoked; what it rejects are arguments whose shapes disagree.  *)
(* Every matrix A of the inputs has at least one column; a constraint set  *)
(* of size zero is a matrix of no rows or a vector b of no entries.        *)
(***************************************************************************)
EXTENDS Integers, Sequences, FiniteSets, TLC

\* ------------------------------------------------------------------ bounds
MaxVars == 2
MaxRows == 2

\* -------------------------------------------------------------- constants
\* (A @ sol - b) ** 2 < 10 ** -12, in squared units of 1e-7
ActiveTolSq == 100

OPTIMAL == "OPTIMAL"
SUBOPTIMAL == "SUBOPTIMAL"
INFEASIBLE == "INFEASIBLE"
UNBOUNDED == "UNBOUNDED"

BINARY == "B"
CONTINUOUS == "C"
EQUAL == "="
LESS_EQUAL == "<"
MINIMIZE == "min"
INFINITY == "inf"

\* ------------------------------------------------------------------ values
None == [some |-> FALSE]

Matrix(r, c, entries) == [some |-> TRUE, rows |-> r, cols |-> c, at |-> entries]

\* a column vector of r entries
Vector(r, entries) == [some |-> TRUE, rows |-> r, cols |-> 1, at |-> entries]

\* a list of indices (equality_constraints, bin_vars)
List(s) == [some |-> TRUE, items |-> s]

\* numpy.size: the number of elements
NumpySize(a) == a.rows * a.cols

\* len() of a list of distinct indices
Len0(l) == Cardinality(l.items)

SolverOutput(obj, sol, slack, active_set, dual) ==
    [some |-> TRUE, obj |-> obj, sol |-> sol, slack |-> slack,
     active_set |-> active_set, dual |-> dual]

Returned(v) == [kind |-> "returned", value |-> v, exc |-> ""]
Raised(e) == [kind |-> "raised", value |-> None, exc |-> e]
Pending == [kind |-> "pending", value |-> None, exc |-> ""]

VARIABLES
    ep,               \* the entry point the caller invokes
    args,             \* the caller's arguments
    pc,               \* position of the call
    f,                \* solve_miqp's parameters and locals
    model,            \* the gurobipy model solve_miqp builds
    calls,            \* the solver methods invoked so far, in order
    stub,             \* what the solver answers
    outcome,          \* how the call ended
    entered,          \* how many times solve_miqp was entered in this call
    run,              \* 1: the caller's call; 2: the same problem given to solve_miqp
    first             \* the outcome of run 1, kept during run 2

vars == <<ep, args, pc, f, model, calls, stub, outcome, entered, run, first>>

\* ------------------------------------------------- get_program_parameters
GetProgramParametersQFirst(Q, c, A, b) ==
    IF A.some /\ ~b.some
    THEN [raised |-> TRUE, num_v |-> 0, num_c |-> 0]
    ELSE [raised |-> FALSE,
          num_v |-> IF Q.some THEN Q.rows
                    ELSE IF A.some THEN A.cols
                    ELSE IF c.some THEN NumpySize(c) ELSE 0,
          num_c |-> IF A.some THEN b.rows ELSE 0]

\* num_v and num_c start at 0 and are overwritten in the order Q, A (with b), c;
\* b.shape[0] on b = None raises AttributeError, and then nothing is returned
GetProgramParameters(Q, c, A, b) ==
    LET v0 == 0
        c0 == 0
        v1 == IF Q.some THEN Q.rows ELSE v0
        v2 == IF A.some THEN A.cols ELSE v1
        v3 == IF c.some THEN NumpySize(c) ELSE v2
    IN  IF A.some /\ ~b.some
        THEN [raised |-> TRUE, num_v |-> 0, num_c |-> 0]
        ELSE [raised |-> FALSE, num_v |-> v3,
              num_c |-> IF A.some THEN b.rows ELSE c0]

\* ------------------------------------------------------------- solve_miqp
\* the parameters of solve_miqp, and its locals num_vars and num_constraints
Frame(Q, c, A, b, eqc, bv, verbose, get_duals) ==
    [Q |-> Q, c |-> c, A |-> A, b |-> b, equality_constraints |-> eqc,
     bin_vars |-> bv, verbose |-> verbose, get_duals |-> get_duals,
     num_vars |-> 0, num_constraints |-> 0]

NoFrame == Frame(None, None, None, None, None, None, FALSE, FALSE)

\* gp.Model() before anything is declared on it
NewModel ==
    [created |-> TRUE, params |-> {}, vars |-> None, constrs |-> None,
     objective |-> None]

NoModel == [NewModel EXCEPT !.created = FALSE]

\* a None list of indices becomes []
OrEmpty(l) == IF l.some THEN l ELSE List({})

\* the parameters solve_miqp sets on the model, in order
SetParams(verbose, bv) ==
    (IF ~verbose THEN << <<"OutputFlag", "0">> >> ELSE << >>)
    \o (IF Len0(bv) = 0 THEN << <<"Method", "0">> >> ELSE << >>)
    \o << <<"Quad", "1">>, <<"FeasibilityTol", "1e-9">>,
          <<"OptimalityTol", "1e-9">>, <<"Presolve", "0">> >>

Range(s) == {s[i] : i \in 1..Len(s)}

SetParamCalls(ps) == [i \in 1..Len(ps) |-> "setParam"]

IllPosedWrongQ(A, Q) == ~A.some /\ Q.some

\* whether solve_miqp returns None before declaring anything
IllPosed(A, Q) == ~A.some /\ ~Q.some

\* var_types = [GRB.BINARY if i in bin_vars else GRB.CONTINUOUS for i in range(num_vars)]
VarTypes(bv, num_vars) ==
    [i \in 0..(num_vars - 1) |-> IF i \in bv.items THEN BINARY ELSE CONTINUOUS]

\* model.addMVar(num_vars, lb=-GRB.INFINITY, ub=GRB.INFINITY, vtype=var_types)
AddMVar(num_vars, var_types) ==
    [some |-> TRUE, n |-> num_vars, lb |-> <<"-", INFINITY>>, ub |-> <<"+", INFINITY>>,
     vtype |-> var_types]

\* numpy indexing: a negative index counts from the end
NormIdx(e, m) == IF e < 0 THEN e + m ELSE e

\* numpy raises IndexError for an index outside -m .. m-1
IndexOutOfRange(idxs, m) == \E e \in idxs : e < -m \/ e >= m

\* sense[idxs] = v
AssignAt(s, idxs, v, m) ==
    [i \in 0..(m - 1) |-> IF \E e \in idxs : NormIdx(e, m) = i THEN v ELSE s[i]]

SensesNoEquality(eqc, m) == [i \in 0..(m - 1) |-> LESS_EQUAL]

\* sense = numpy.chararray(num_constraints), whose entries start uninitialised;
\* then the equality rows and the remaining rows are assigned
Senses(eqc, m) ==
    LET s0 == [i \in 0..(m - 1) |-> "uninitialised"]
        s1 == AssignAt(s0, eqc.items, EQUAL, m)
        inequality == {i \in 0..(m - 1) : i \notin eqc.items}
    IN  AssignAt(s1, inequality, LESS_EQUAL, m)

\* model.addMConstrs(A, x, sense, b): the solver takes a matrix with one column per
\* variable and one row per sense and right-hand side
AddMConstrsAccepts(A, num_vars, m, b) ==
    A.cols = num_vars /\ A.rows = m /\ b.rows = m

\* x @ Q @ x: Q is square over the variables
QuadAccepts(Q, num_vars) == Q.rows = num_vars /\ Q.cols = num_vars

\* c.flatten() @ x
LinAccepts(c, num_vars) == NumpySize(c) = num_vars

\* solve_miqp from its variable declaration to setObjective: the model it leaves,
\* the solver methods it invoked, and the error that ended it ("" for none)
BuildModel(fr, m0) ==
    LET n == fr.num_vars
        m == fr.num_constraints
        x == AddMVar(n, VarTypes(fr.bin_vars, n))
        m1 == [m0 EXCEPT !.vars = x]
        k1 == <<"addMVar">>
        withC == m # 0
        idxErr == withC /\ IndexOutOfRange(fr.equality_constraints.items, m)
        cErr == withC /\ ~idxErr /\ ~AddMConstrsAccepts(fr.A, n, m, fr.b)
        m2 == IF withC /\ ~idxErr /\ ~cErr
              THEN [m1 EXCEPT !.constrs =
                       [some |-> TRUE, A |-> fr.A,
                        sense |-> Senses(fr.equality_constraints, m),
                        rhs |-> fr.b.at]]
              ELSE m1
        k2 == IF withC /\ ~idxErr THEN k1 \o <<"addMConstrs">> ELSE k1
        qErr == fr.Q.some /\ ~QuadAccepts(fr.Q, n)
        lErr == ~qErr /\ fr.c.some /\ ~LinAccepts(fr.c, n)
        m3 == [m2 EXCEPT !.objective =
                  [some |-> TRUE, quad |-> fr.Q, lin |-> fr.c, sense |-> MINIMIZE]]
    IN  IF idxErr THEN [model |-> m1, calls |-> k1, exc |-> "IndexError"]
        ELSE IF cErr THEN [model |-> m1, calls |-> k2, exc |-> "GurobiError"]
        ELSE IF qErr \/ lErr THEN [model |-> m2, calls |-> k2, exc |-> "GurobiError"]
        ELSE [model |-> m3, calls |-> k2 \o <<"setObjective">>, exc |-> ""]

\* ------------------------------------------------------------ the solver
NoStub == [some |-> FALSE]

\* what the solver may report after optimize for n variables and m constraints:
\* a status and, for the attribute queries, ObjVal, X, Slack and Pi
Presets ==
    { [obj |-> 0, x0 |-> 0, x |-> 0, s |-> 0, pi |-> 0],
      [obj |-> 7, x0 |-> 9, x |-> 0, s |-> 3, pi |-> 1],
      [obj |-> 0 - 7, x0 |-> 10, x |-> 9, s |-> 0, pi |-> 2] }

StubOf(status, p, n, m) ==
    [some |-> TRUE, status |-> status, ObjVal |-> p.obj,
     X |-> [j \in 0..(n - 1) |-> IF j = 0 THEN p.x0 ELSE p.x],
     Slack |-> [i \in 0..(m - 1) |-> p.s],
     Pi |-> [i \in 0..(m - 1) |-> p.pi]]

Stubs(n, m) ==
    {StubOf(st, p, n, m) : st \in {OPTIMAL, SUBOPTIMAL}, p \in Presets}
    \cup {StubOf(st, CHOOSE p \in Presets : p.obj = 0 /\ p.x0 = 0, n, m) :
            st \in {INFEASIBLE, UNBOUNDED}}

SolvedOptimalOnly(status) == status = OPTIMAL

\* status != GRB.OPTIMAL and status != GRB.SUBOPTIMAL returns None
Solved(status) == ~(status # OPTIMAL /\ status # SUBOPTIMAL)

\* ------------------------------------------------------ solution extraction
RECURSIVE DotFrom(_, _, _, _, _)
DotFrom(A, i, x, j, n) ==
    IF j >= n THEN 0 ELSE A.at[<<i, j>>] * x[j] + DotFrom(A, i, x, j + 1, n)

\* (A @ sol.sol.flatten() - b.flatten())[i]
Residual(A, x, b, i) == DotFrom(A, i, x, 0, A.cols) - b.at[i]

ActiveSetNonStrict(A, x, b) ==
    {i \in 0..(A.rows - 1) : Residual(A, x, b, i) * Residual(A, x, b, i) <= ActiveTolSq}

\* numpy.where((A @ sol.sol.flatten() - b.flatten()) ** 2 < 10 ** -12)
ActiveSet(A, x, b) ==
    {i \in 0..(A.rows - 1) : Residual(A, x, b, i) * Residual(A, x, b, i) < ActiveTolSq}

WantDualsIgnoringBinaries(get_duals, bv) == get_duals

\* if get_duals: if len(bin_vars) == 0: sol.dual = Pi
WantDuals(get_duals, bv) == get_duals /\ Len0(bv) = 0

\* if num_constraints != 0
HasConstraints(num_constraints) == num_constraints # 0

ExtractSlackUnderDuals(fr, st) ==
    LET sol == SolverOutput(st.ObjVal, st.X, None, None, None)
    IN  IF HasConstraints(fr.num_constraints) /\ fr.get_duals
        THEN [sol EXCEPT
                !.dual = IF WantDuals(fr.get_duals, fr.bin_vars)
                         THEN [some |-> TRUE, val |-> st.Pi] ELSE None,
                !.slack = [some |-> TRUE, val |-> st.Slack],
                !.active_set = [some |-> TRUE, val |-> ActiveSet(fr.A, sol.sol, fr.b)]]
        ELSE sol

\* the SolverOutput solve_miqp returns from a solved model
Extract(fr, st) ==
    LET sol == SolverOutput(st.ObjVal, st.X, None, None, None)
    IN  IF HasConstraints(fr.num_constraints)
        THEN [sol EXCEPT
                !.dual = IF WantDuals(fr.get_duals, fr.bin_vars)
                         THEN [some |-> TRUE, val |-> st.Pi] ELSE None,
                !.slack = [some |-> TRUE, val |-> st.Slack],
                !.active_set = [some |-> TRUE, val |-> ActiveSet(fr.A, sol.sol, fr.b)]]
        ELSE sol

\* ---------------------------------------------------------- entry points
\* solve_qp: solve_miqp(Q, c, A, b, equality_constraints, verbose=verbose,
\* get_duals=get_duals); bin_vars keeps its default None
QpFrameDropsDuals(a) ==
    Frame(a.Q, a.c, a.A, a.b, a.equality_constraints, None, a.verbose, TRUE)

QpFrame(a) ==
    Frame(a.Q, a.c, a.A, a.b, a.equality_constraints, None, a.verbose, a.get_duals)

\* solve_lp / solve_milp: if A is None or b is None: return None;
\* if numpy.size(A) == 0 or numpy.size(b) == 0: return None
ShortCutNoneOnly(A, b) == ~A.some \/ ~b.some

ShortCut(A, b) ==
    IF ~A.some \/ ~b.some THEN TRUE
    ELSE NumpySize(A) = 0 \/ NumpySize(b) = 0

\* solve_lp: solve_miqp(None, c, A, b, equality_constraints=..., bin_vars=None, ...)
LpFrame(a) ==
    Frame(None, a.c, a.A, a.b, a.equality_constraints, None, a.verbose, a.get_duals)

\* solve_milp: solve_miqp(Q=None, c=c, A=A, b=b, ..., bin_vars=bin_vars, ...)
MilpFrame(a) ==
    Frame(None, a.c, a.A, a.b, a.equality_constraints, a.bin_vars, a.verbose,
          a.get_duals)

\* the caller invokes solve_miqp itself
MiqpFrame(a) ==
    Frame(a.Q, a.c, a.A, a.b, a.equality_constraints, a.bin_vars, a.verbose,
          a.get_duals)

Enter(fr) ==
    /\ f' = fr
    /\ pc' = "miqp"
    /\ entered' = entered + 1
    /\ UNCHANGED <<model, calls, stub, outcome>>

Finish(o) ==
    /\ outcome' = o
    /\ pc' = "done"

CallMiqp ==
    /\ pc = "call" /\ ep = "miqp"
    /\ Enter(MiqpFrame(args))
    /\ UNCHANGED <<ep, args, run, first>>

SolveQp ==
    /\ pc = "call" /\ ep = "qp"
    /\ Enter(QpFrame(args))
    /\ UNCHANGED <<ep, args, run, first>>

SolveLp ==
    /\ pc = "call" /\ ep = "lp"
    /\ IF ShortCut(args.A, args.b)
       THEN Finish(Returned(None)) /\ UNCHANGED <<f, model, calls, stub, entered>>
       ELSE Enter(LpFrame(args))
    /\ UNCHANGED <<ep, args, run, first>>

SolveMilp ==
    /\ pc = "call" /\ ep = "milp"
    /\ IF ShortCut(args.A, args.b)
       THEN Finish(Returned(None)) /\ UNCHANGED <<f, model, calls, stub, entered>>
       ELSE Enter(MilpFrame(args))
    /\ UNCHANGED <<ep, args, run, first>>

\* solve_miqp, lines 93-116: the model and its parameters, the defaults of the
\* index lists, the problem's dimensions, and the return of None when neither Q
\* nor A is given
MiqpSetup ==
    /\ pc = "miqp"
    /\ LET eqc == OrEmpty(f.equality_constraints)
           bv == OrEmpty(f.bin_vars)
           ps == SetParams(f.verbose, bv)
           p == GetProgramParameters(f.Q, f.c, f.A, f.b)
       IN  /\ model' = [NewModel EXCEPT !.params = Range(ps)]
           /\ calls' = calls \o <<"Model">> \o SetParamCalls(ps)
           /\ f' = [f EXCEPT !.equality_constraints = eqc, !.bin_vars = bv,
                             !.num_vars = p.num_v, !.num_constraints = p.num_c]
           /\ IF p.raised THEN Finish(Raised("AttributeError"))
              ELSE IF IllPosed(f.A, f.Q) THEN Finish(Returned(None))
              ELSE pc' = "build" /\ UNCHANGED outcome
    /\ UNCHANGED <<ep, args, stub, entered, run, first>>

\* solve_miqp, lines 118-138: variables, constraints, objective
MiqpBuild ==
    /\ pc = "build"
    /\ LET r == BuildModel(f, model)
       IN  /\ model' = r.model
           /\ calls' = calls \o r.calls
           /\ IF r.exc # "" THEN Finish(Raised(r.exc))
              ELSE pc' = "optimize" /\ UNCHANGED outcome
    /\ UNCHANGED <<ep, args, f, stub, entered, run, first>>

\* solve_miqp, lines 140-147: optimize, update, and the status test
MiqpOptimize ==
    /\ pc = "optimize"
    /\ calls' = calls \o <<"optimize", "update">>
    /\ IF stub.some THEN stub' = stub
       ELSE stub' \in Stubs(f.num_vars, f.num_constraints)
    /\ IF Solved(stub'.status) THEN pc' = "extract" /\ UNCHANGED outcome
       ELSE Finish(Returned(None))
    /\ UNCHANGED <<ep, args, f, model, entered, run, first>>

\* solve_miqp, lines 150-164: the SolverOutput
MiqpExtract ==
    /\ pc = "extract"
    /\ calls' = calls \o <<"getAttr">>
    /\ Finish(Returned(Extract(f, stub)))
    /\ UNCHANGED <<ep, args, f, model, stub, entered, run, first>>

\* the arguments with which solve_miqp stands for an entry point
Canonical(e, a) ==
    Frame(IF e = "qp" THEN a.Q ELSE None, a.c, a.A, a.b, a.equality_constraints,
          IF e = "milp" THEN a.bin_vars ELSE List({}), a.verbose, a.get_duals)

\* after an entry point has returned, the same problem is given to solve_miqp
\* directly, with the same solver answers
Replay ==
    /\ pc = "done" /\ run = 1 /\ ep # "miqp"
    /\ run' = 2
    /\ first' = outcome
    /\ f' = Canonical(ep, args)
    /\ pc' = "miqp"
    /\ entered' = 1
    /\ model' = NoModel
    /\ calls' = << >>
    /\ outcome' = Pending
    /\ UNCHANGED <<ep, args, stub>>

\* ------------------------------------------------------------------ inputs
EntryPoints == {"miqp", "qp", "lp", "milp"}

Ones(r, c) == Matrix(r, c, [ij \in (0..(r - 1)) \X (0..(c - 1)) |-> 1])

Diag(r, c, d) ==
    Matrix(r, c, [ij \in (0..(r - 1)) \X (0..(c - 1)) |-> IF ij[1] = ij[2] THEN d ELSE 0])

Const(r, v) == Vector(r, [i \in 0..(r - 1) |-> v])

\* Q and c: only their shapes reach this layer
Square(n) == [some |-> TRUE, rows |-> n, cols |-> n]

Column(n) == [some |-> TRUE, rows |-> n, cols |-> 1]

Prefixes(n) == {0..(k - 1) : k \in 0..n}

\* index lists: absent, the leading indices, the last index alone, one past the
\* end, -1 alone and with 0
IndexChoices(n) ==
    {None} \cup {List(s) : s \in Prefixes(n) \cup {{n - 1}, {n}, {0 - 1}, {0, 0 - 1}}}

Args(Q, c, A, b, eqc, bv, verbose, get_duals) ==
    [Q |-> Q, c |-> c, A |-> A, b |-> b, equality_constraints |-> eqc,
     bin_vars |-> bv, verbose |-> verbose, get_duals |-> get_duals]

\* every combination of absent and present Q, c, A, b, sizes agreeing or not
ShapeInputs ==
    {Args(Q, c, A, b, None, None, FALSE, TRUE) :
        Q \in {None} \cup {Square(n) : n \in 1..MaxVars},
        c \in {None} \cup {Column(n) : n \in 1..MaxVars},
        A \in {None} \cup {Ones(r, n) : r \in 0..MaxRows, n \in 1..MaxVars},
        b \in {None} \cup {Const(r, 0) : r \in 0..MaxRows}}

\* well-shaped problems under every choice of index lists
IndexInputs ==
    UNION {
      {Args(Q, c, Diag(m, n, 1), Const(m, 0), eqc, bv, FALSE, gd) :
          Q \in {None, Square(n)}, c \in {None, Column(n)},
          eqc \in IndexChoices(m), bv \in IndexChoices(n), gd \in BOOLEAN}
      : n \in 1..MaxVars, m \in 1..MaxRows }

\* small problems under every flag
FlagInputs ==
    {Args(Q, c, A, b, eqc, bv, vb, gd) :
        Q \in {None, Square(1)}, c \in {None, Column(1)},
        A \in {None, Ones(0, 1), Ones(1, 1)},
        b \in {None, Const(0, 0), Const(1, 0)},
        eqc \in {None, List({0})}, bv \in {None, List({0})},
        vb \in BOOLEAN, gd \in BOOLEAN}

BVals == {0, 10}

\* linear problems whose residuals fall on both sides of the tolerance
NumericInputs ==
    UNION {
      {Args(None, Column(n), A, Vector(m, bat), eqc, None, FALSE, TRUE) :
          A \in {Ones(m, n), Diag(m, n, 1), Diag(m, n, 0 - 1)},
          bat \in [0..(m - 1) -> BVals],
          eqc \in {None, List({0})}}
      : n \in 1..MaxVars, m \in 1..MaxRows }

Inputs == ShapeInputs \cup IndexInputs \cup FlagInputs \cup NumericInputs

Init ==
    /\ ep \in EntryPoints
    /\ args \in Inputs
    /\ pc = "call"
    /\ f = NoFrame
    /\ model = NoModel
    /\ calls = << >>
    /\ stub = NoStub
    /\ outcome = Pending
    /\ entered = 0
    /\ run = 1
    /\ first = Pending

Next ==
    \/ CallMiqp
    \/ SolveQp
    \/ SolveLp
    \/ SolveMilp
    \/ MiqpSetup
    \/ MiqpBuild
    \/ MiqpOptimize
    \/ MiqpExtract
    \/ Replay

Spec == Init /\ [][Next]_vars

\* ------------------------------------------------------------ properties
Done == pc = "done"

\* a finished execution of solve_miqp, entered directly or through an entry point
MiqpDone == Done /\ entered = 1

Optimized == \E i \in 1..Len(calls) : calls[i] = "optimize"

GotRecord == Done /\ outcome.kind = "returned" /\ outcome.value.some

\* the problem's number of constraints: b's length when A is given, else none
NConstraints == IF args.A.some THEN args.b.rows ELSE 0

\* the binary indices the entry point hands on: solve_qp and solve_lp take none
GivenBin == IF ep \in {"miqp", "milp"} THEN OrEmpty(args.bin_vars).items ELSE {}

GivenEq == OrEmpty(args.equality_constraints).items

\* the variables the built model types binary
BinaryTyped == {j \in DOMAIN model.vars.vtype : model.vars.vtype[j] = BINARY}

\* C1: when Q or A is given, solve_miqp returns None exactly when optimize ran and
\* the status is neither OPTIMAL nor SUBOPTIMAL; when it is OPTIMAL or SUBOPTIMAL
\* a record is returned whose obj and sol are the solver's ObjVal and X.
C1_StatusDecidesResult ==
    (MiqpDone /\ (f.Q.some \/ f.A.some)) =>
        /\ (outcome = Returned(None))
             <=> (Optimized /\ stub.status \notin {OPTIMAL, SUBOPTIMAL})
        /\ (Optimized /\ stub.status \in {OPTIMAL, SUBOPTIMAL}) =>
             /\ outcome.kind = "returned" /\ outcome.value.some
             /\ outcome.value.obj = stub.ObjVal
             /\ outcome.value.sol = stub.X

C1_Witness ==
    /\ MiqpDone /\ f.Q.some /\ Optimized /\ stub.status = SUBOPTIMAL
    /\ outcome.value.some /\ outcome.value.obj = 7

\* C2 as stated: with Q and A both absent, solve_miqp and solve_qp return None
\* without any use of the solver.
C2_NoSolverUse ==
    (MiqpDone /\ run = 1 /\ ~args.Q.some /\ ~args.A.some) =>
        outcome = Returned(None) /\ calls = << >>

\* C2 amended: with Q and A both absent, whatever c, b and the index lists are,
\* solve_miqp and solve_qp return None having created a model and set its
\* parameters, but without declaring variables, constraints or an objective and
\* without invoking optimize.
C2_NoneBeforeDeclaring ==
    (entered = 1 /\ run = 1 /\ pc # "miqp" /\ ~args.Q.some /\ ~args.A.some) =>
        /\ outcome = Returned(None) /\ Done
        /\ Range(calls) \subseteq {"Model", "setParam"}
        /\ model.vars = None /\ model.constrs = None /\ model.objective = None

C2_Witness ==
    /\ Done /\ run = 1 /\ ep = "qp" /\ ~args.Q.some /\ ~args.A.some
    /\ args.c.some /\ args.b.some /\ args.equality_constraints.some
    /\ outcome = Returned(None) /\ model.created

\* A or b absent or of size zero
Degenerate ==
    \/ ~args.A.some
    \/ ~args.b.some
    \/ NumpySize(args.A) = 0
    \/ NumpySize(args.b) = 0

\* C3: solve_lp and solve_milp return None when A or b is absent or of size zero,
\* without entering solve_miqp, creating a model or invoking the solver; in every
\* other case they enter solve_miqp exactly once.
C3_ShortCuts ==
    (run = 1 /\ ep \in {"lp", "milp"} /\ pc # "call") =>
        IF Degenerate
        THEN /\ Done /\ outcome = Returned(None)
             /\ entered = 0 /\ model = NoModel /\ calls = << >>
        ELSE entered = 1

C3_Witness ==
    /\ run = 1 /\ ep = "lp" /\ Done /\ args.A.some /\ args.b.some
    /\ args.A.rows > 0 /\ NumpySize(args.b) = 0
    /\ outcome = Returned(None) /\ entered = 0

\* C4 as stated: in every returned record dual is populated if and only if
\* constraints exist, get_duals is true and no variable is binary-typed.
C4_DualIffNoBinaryTyped ==
    GotRecord =>
        (outcome.value.dual.some
           <=> (NConstraints > 0 /\ args.get_duals /\ BinaryTyped = {}))

\* C4 amended: in every returned record dual is populated if and only if
\* constraints exist, get_duals is true and bin_vars is empty; so dual is absent
\* whenever get_duals is false and whenever some variable is binary-typed.
C4_DualIffNoBinVars ==
    GotRecord =>
        /\ outcome.value.dual.some
             <=> (NConstraints > 0 /\ args.get_duals /\ GivenBin = {})
        /\ ~args.get_duals => ~outcome.value.dual.some
        /\ BinaryTyped # {} => ~outcome.value.dual.some

C4_Witness ==
    /\ GotRecord /\ NConstraints > 0 /\ args.get_duals
    /\ BinaryTyped # {} /\ ~outcome.value.dual.some

\* C5: in every returned record slack and active_set are populated exactly when
\* the problem has constraints; without constraints slack, active_set and dual
\* are all absent.
C5_SlackIffConstraints ==
    GotRecord =>
        IF NConstraints = 0
        THEN /\ outcome.value.slack = None
             /\ outcome.value.active_set = None
             /\ outcome.value.dual = None
        ELSE outcome.value.slack.some /\ outcome.value.active_set.some

C5_Witness ==
    /\ GotRecord /\ args.A.some /\ NConstraints = 0 /\ args.get_duals
    /\ outcome.value.slack = None

RECURSIVE RowTimes(_, _, _)
\* the sum over columns 0 .. k-1 of A[i, j] * x[j]
RowTimes(i, x, k) ==
    IF k = 0 THEN 0 ELSE RowTimes(i, x, k - 1) + args.A.at[<<i, k - 1>>] * x[k - 1]

SquaredResidual(i) ==
    LET r == RowTimes(i, outcome.value.sol, args.A.cols) - args.b.at[i]
    IN  r * r

\* C6: in every returned record of a constrained problem active_set is exactly
\* the set of rows i in 0 .. n_constraints-1 whose (A.sol - b)[i] squared is
\* strictly below 1e-12, for equality and inequality rows alike and whatever
\* slack the solver reports.
C6_ActiveSet ==
    (GotRecord /\ NConstraints > 0) =>
        outcome.value.active_set.val
          = {i \in 0..(NConstraints - 1) : SquaredResidual(i) < ActiveTolSq}

C6_Witness ==
    /\ GotRecord /\ NConstraints > 1
    /\ SquaredResidual(0) = ActiveTolSq /\ 0 \notin outcome.value.active_set.val
    /\ SquaredResidual(1) = 81 /\ 1 \in outcome.value.active_set.val
    /\ 0 \in GivenEq
    /\ outcome.value.slack.val[0] = 0 /\ outcome.value.slack.val[1] = 0

\* solve_miqp is past its call of get_program_parameters
PastParameters == entered = 1 /\ pc # "miqp"

\* C7 as stated: n_vars comes from Q's row count, else A's column count, else c's
\* length, also when the sizes disagree; n_constraints is b's length when A is
\* given and zero otherwise.
C7_QFirst ==
    (PastParameters /\ (f.A.some => f.b.some)) =>
        /\ f.num_vars = IF f.Q.some THEN f.Q.rows
                        ELSE IF f.A.some THEN f.A.cols
                        ELSE IF f.c.some THEN NumpySize(f.c) ELSE 0
        /\ f.num_constraints = IF f.A.some THEN f.b.rows ELSE 0

\* C7 amended: n_vars comes from c's size, else A's column count, else Q's row
\* count, else it is zero; n_constraints is b's length when A is given and zero
\* otherwise; with A given and b absent the call raises instead of returning.
C7_CFirst ==
    PastParameters =>
        IF f.A.some /\ ~f.b.some
        THEN Done /\ outcome = Raised("AttributeError")
        ELSE /\ f.num_vars = IF f.c.some THEN NumpySize(f.c)
                             ELSE IF f.A.some THEN f.A.cols
                             ELSE IF f.Q.some THEN f.Q.rows ELSE 0
             /\ f.num_constraints = IF f.A.some THEN f.b.rows ELSE 0

C7_Witness ==
    /\ PastParameters /\ f.Q.some /\ f.A.some /\ f.c.some /\ f.b.some
    /\ f.Q.rows # f.A.cols /\ f.A.cols # NumpySize(f.c) /\ f.A.rows # f.b.rows
    /\ f.num_vars = NumpySize(f.c) /\ f.num_constraints = f.b.rows

\* C8: every call of solve_miqp or solve_qp, malformed problems included, ends by
\* returning a record or None; nothing is raised.
C8_NothingRaised ==
    (Done /\ run = 1 /\ ep \in {"miqp", "qp"}) => outcome.kind = "returned"

\* the model is built: variables, constraints and objective are declared
Built == model.objective.some

\* C9: a built model with n_constraints > 0 has one constraint per row of A, row
\* i with sense EQUAL if i is in equality_constraints and LESS-OR-EQUAL otherwise,
\* bound to b[i]; variable j is binary if j is in bin_vars and continuous over
\* (-inf, +inf) otherwise.
C9_SensesAndTypes ==
    Built =>
        /\ f.num_constraints > 0 =>
             /\ model.constrs.some
             /\ DOMAIN model.constrs.sense = 0..(args.A.rows - 1)
             /\ \A i \in 0..(args.A.rows - 1) :
                  /\ model.constrs.sense[i]
                       = IF i \in GivenEq THEN EQUAL ELSE LESS_EQUAL
                  /\ model.constrs.rhs[i] = args.b.at[i]
        /\ DOMAIN model.vars.vtype = 0..(f.num_vars - 1)
        /\ \A j \in 0..(f.num_vars - 1) :
             model.vars.vtype[j] = IF j \in GivenBin THEN BINARY ELSE CONTINUOUS
        /\ model.vars.lb = <<"-", INFINITY>> /\ model.vars.ub = <<"+", INFINITY>>

C9_Witness ==
    /\ Built /\ f.num_constraints > 1 /\ f.num_vars > 1
    /\ model.constrs.sense[0] = EQUAL /\ model.constrs.sense[1] = LESS_EQUAL
    /\ model.vars.vtype[0] = CONTINUOUS /\ model.vars.vtype[1] = BINARY
    /\ (0 - 1) \in GivenEq

\* the arguments reach solve_miqp unchanged
PassedThrough ==
    (run = 1 /\ entered = 1) =>
        /\ f.verbose = args.verbose /\ f.get_duals = args.get_duals
        /\ f.c = args.c /\ f.A = args.A /\ f.b = args.b

\* C10 as stated: solve_qp returns what solve_miqp returns with bin_vars empty,
\* solve_milp with A and b present and non-empty what solve_miqp returns with Q
\* absent, and solve_lp, whatever A and b are, what solve_miqp returns with Q
\* absent and bin_vars empty.
C10_LpAlwaysAsMiqp ==
    (run = 2 /\ Done /\ outcome.kind = "returned") =>
        /\ ep = "qp" => first = outcome
        /\ (ep = "milp" /\ ~Degenerate) => first = outcome
        /\ ep = "lp" => first = outcome

\* C10 amended: solve_qp ends as solve_miqp does with bin_vars empty; solve_milp
\* and solve_lp, when A and b are present and non-empty, end as solve_miqp does
\* with Q absent and with the same bin_vars (solve_milp) or none (solve_lp);
\* verbose and get_duals are passed through unchanged.
C10_EntryPointsAsMiqp ==
    /\ PassedThrough
    /\ (run = 2 /\ Done) =>
         /\ ep = "qp" => first = outcome
         /\ (ep \in {"milp", "lp"} /\ ~Degenerate) => first = outcome

C10_Witness ==
    /\ run = 2 /\ Done /\ ep = "milp" /\ outcome.value.some /\ first = outcome
    /\ BinaryTyped # {} /\ ~args.get_duals /\ args.verbose

====
